---------------------------- MODULE Spec2Model ----------------------------
(***************************************************************************)
(* A model of the LazAI mail-intent pipeline:                              *)
(*   src/main.py            - Gmail access and the MIME body extractor     *)
(*   src/classify_intent.py - the JSON coercer, the two language-model     *)
(*                            calls and the orchestrating __main__ block   *)
(*                                                                         *)
(* Text handled by the JSON coercer is a sequence of one-character         *)
(* strings.  Text produced by the body extractor is a sequence of Unicode  *)
(* code points (naturals), because it comes out of a UTF-8 decoder.        *)
(***************************************************************************)
EXTENDS Integers, Sequences, FiniteSets, TLC

VARIABLES
    pc,          \* position of the run / which operation has been applied
    payload,     \* MIME part tree handed to extract_body_text
    bodyResult,  \* what extract_body_text returned (or that it raised)
    text,        \* raw text handed to _extract_json
    given,       \* how the input text was put together (lead, object, trail)
    jsonResult,  \* what _extract_json returned (or the error it raised)
    now,         \* reference datetime handed to extract_datetime_with_ollama
    dtResult,    \* what extract_datetime_with_ollama returned (or that it raised)
    inbox,       \* the mailbox: messages of the INBOX label, newest first
    calls,       \* log of the external calls and coercions of one run
    stdout       \* what the run printed

vars == <<pc, payload, bodyResult, text, given, jsonResult, now, dtResult,
          inbox, calls, stdout>>

-----------------------------------------------------------------------------
(* Bounds of the model *)

\* Largest number of parts in a generated MIME part tree.
MaxNodes == 4

\* Largest number of keys in a generated JSON object.
MaxKeys == 2

-----------------------------------------------------------------------------
(* Small helpers *)

Min(a, b) == IF a < b THEN a ELSE b

\* Python's seq[:n]
Prefix(s, n) == SubSeq(s, 1, Min(Len(s), n))

\* Python's Optional values
None == [set |-> FALSE, text |-> <<>>]
Some(t) == [set |-> TRUE, text |-> t]

-----------------------------------------------------------------------------
(* src/main.py: b64url_decode *)

B64Chars ==
    << "A","B","C","D","E","F","G","H","I","J","K","L","M",
       "N","O","P","Q","R","S","T","U","V","W","X","Y","Z",
       "a","b","c","d","e","f","g","h","i","j","k","l","m",
       "n","o","p","q","r","s","t","u","v","w","x","y","z",
       "0","1","2","3","4","5","6","7","8","9","+","/" >>

B64Index == [c \in {B64Chars[i] : i \in 1..64} |->
                (CHOOSE i \in 1..64 : B64Chars[i] = c) - 1]

\* urlsafe_b64decode first maps '-' to '+' and '_' to '/'; the value 64 marks a
\* character outside the alphabet, which the lenient decoder skips.
B64Val(c) ==
    IF c = "-" THEN 62
    ELSE IF c = "_" THEN 63
    ELSE IF c \in DOMAIN B64Index THEN B64Index[c]
    ELSE 64

\* binascii.a2b_base64 in its default, non-strict mode.  Result: ok = FALSE for
\* binascii.Error (incorrect padding / impossible number of data characters).
RECURSIVE a2b_base64(_, _, _, _, _, _)
a2b_base64(s, i, quad_pos, leftchar, pads, out) ==
    IF i > Len(s)
    THEN IF quad_pos # 0
         THEN [ok |-> FALSE, bytes |-> <<>>]
         ELSE [ok |-> TRUE, bytes |-> out]
    ELSE LET c == s[i]
             v == B64Val(c)
         IN  IF c = "="
             THEN IF quad_pos >= 2 /\ quad_pos + pads + 1 >= 4
                  THEN [ok |-> TRUE, bytes |-> out]
                  ELSE a2b_base64(s, i + 1, quad_pos, leftchar,
                                  IF quad_pos >= 2 THEN pads + 1 ELSE pads, out)
             ELSE IF v >= 64
             THEN a2b_base64(s, i + 1, quad_pos, leftchar, pads, out)
             ELSE CASE quad_pos = 0 ->
                         a2b_base64(s, i + 1, 1, v, 0, out)
                    [] quad_pos = 1 ->
                         a2b_base64(s, i + 1, 2, v % 16, 0,
                                    Append(out, leftchar * 4 + v \div 16))
                    [] quad_pos = 2 ->
                         a2b_base64(s, i + 1, 3, v % 4, 0,
                                    Append(out, leftchar * 16 + v \div 4))
                    [] OTHER ->
                         a2b_base64(s, i + 1, 0, 0, 0,
                                    Append(out, leftchar * 64 + v))

urlsafe_b64decode(data) == a2b_base64(data, 1, 0, 0, 0, <<>>)

\* The replacement character U+FFFD that errors="replace" puts in.
ReplacementChar == 65533

IsCont(b, lo, hi) == b >= lo /\ b <= hi

\* For a lead byte: how many continuation bytes follow, the range allowed for
\* the first of them, and the lead byte's payload bits.  need = 0 with
\* valid = FALSE is a byte that can start nothing.
Utf8Lead(b) ==
    IF b < 128 THEN [valid |-> TRUE, need |-> 0, lo |-> 0, hi |-> 0, bits |-> b]
    ELSE IF b >= 194 /\ b <= 223
         THEN [valid |-> TRUE, need |-> 1, lo |-> 128, hi |-> 191, bits |-> b - 192]
    ELSE IF b = 224
         THEN [valid |-> TRUE, need |-> 2, lo |-> 160, hi |-> 191, bits |-> 0]
    ELSE IF b = 237
         THEN [valid |-> TRUE, need |-> 2, lo |-> 128, hi |-> 159, bits |-> 13]
    ELSE IF b >= 225 /\ b <= 239
         THEN [valid |-> TRUE, need |-> 2, lo |-> 128, hi |-> 191, bits |-> b - 224]
    ELSE IF b = 240
         THEN [valid |-> TRUE, need |-> 3, lo |-> 144, hi |-> 191, bits |-> 0]
    ELSE IF b >= 241 /\ b <= 243
         THEN [valid |-> TRUE, need |-> 3, lo |-> 128, hi |-> 191, bits |-> b - 240]
    ELSE IF b = 244
         THEN [valid |-> TRUE, need |-> 3, lo |-> 128, hi |-> 143, bits |-> 4]
    ELSE [valid |-> FALSE, need |-> 0, lo |-> 0, hi |-> 0, bits |-> 0]

\* Reads up to `need` continuation bytes from position i; k counts those read.
RECURSIVE Utf8Tail(_, _, _, _, _)
Utf8Tail(bytes, i, need, k, acc) ==
    IF k = need THEN [complete |-> TRUE, used |-> k, cp |-> acc]
    ELSE IF i > Len(bytes) \/ ~IsCont(bytes[i], 128, 191)
         THEN [complete |-> FALSE, used |-> k, cp |-> acc]
    ELSE Utf8Tail(bytes, i + 1, need, k + 1, acc * 64 + (bytes[i] - 128))

\* bytes.decode("utf-8", errors="replace"): every maximal ill-formed
\* subsequence becomes one U+FFFD.
RECURSIVE utf8_decode_replace(_, _, _)
utf8_decode_replace(bytes, i, out) ==
    IF i > Len(bytes) THEN out
    ELSE LET lead == Utf8Lead(bytes[i]) IN
         IF ~lead.valid
         THEN utf8_decode_replace(bytes, i + 1, Append(out, ReplacementChar))
         ELSE IF lead.need = 0
         THEN utf8_decode_replace(bytes, i + 1, Append(out, lead.bits))
         ELSE LET first == i + 1 <= Len(bytes)
                           /\ IsCont(bytes[i + 1], lead.lo, lead.hi)
                  tail  == IF first
                           THEN Utf8Tail(bytes, i + 2, lead.need, 1,
                                         lead.bits * 64 + (bytes[i + 1] - 128))
                           ELSE [complete |-> FALSE, used |-> 0, cp |-> 0]
              IN  IF tail.complete
                  THEN utf8_decode_replace(bytes, i + 1 + tail.used,
                                           Append(out, tail.cp))
                  ELSE utf8_decode_replace(bytes, i + 1 + tail.used,
                                           Append(out, ReplacementChar))

\* Result: ok = FALSE when base64 decoding raised.
b64url_decode(data) ==
    LET raw == urlsafe_b64decode(data) IN
    IF raw.ok THEN [ok |-> TRUE, text |-> utf8_decode_replace(raw.bytes, 1, <<>>)]
    ELSE [ok |-> FALSE, text |-> <<>>]

-----------------------------------------------------------------------------
(* src/main.py: extract_body_text *)

(* A MIME part is a record
     mimeType : part.get("mimeType", "")          ("" when the key is absent)
     hasData  : FALSE when part["body"] is absent or None, or has no "data"
     data     : body["data"], the base64url text  (<<>> is the empty string)
     parts    : part.get("parts", []) or []                                 *)
Part(mime, hasData, data, parts) ==
    [mimeType |-> mime, hasData |-> hasData, data |-> data, parts |-> parts]

\* walk with "a later part of the same type overwrites the earlier one".
RECURSIVE walk_last_wins(_, _)
walk_last_wins(part, acc) ==
    IF acc.raised THEN acc
    ELSE
    LET mime == part.mimeType
        data == part.data
        here ==
            IF part.hasData /\ data # <<>>
            THEN LET decoded == b64url_decode(data) IN
                 IF ~decoded.ok
                 THEN [acc EXCEPT !.raised = TRUE]
                 ELSE IF mime = "text/plain"
                 THEN [acc EXCEPT !.best_plain = Some(decoded.text)]
                 ELSE IF mime = "text/html"
                 THEN [acc EXCEPT !.best_html = Some(decoded.text)]
                 ELSE acc
            ELSE acc
        children[i \in 0..Len(part.parts)] ==
            IF i = 0 THEN here ELSE walk_last_wins(part.parts[i], children[i - 1])
    IN  children[Len(part.parts)]

\* walk(part), with the two nonlocal accumulators and "an exception is in
\* flight" threaded through as acc.
RECURSIVE walk(_, _)
walk(part, acc) ==
    IF acc.raised THEN acc
    ELSE
    LET mime == part.mimeType
        data == part.data
        here ==
            IF part.hasData /\ data # <<>>
            THEN LET decoded == b64url_decode(data) IN
                 IF ~decoded.ok
                 THEN [acc EXCEPT !.raised = TRUE]
                 ELSE IF mime = "text/plain" /\ ~acc.best_plain.set
                 THEN [acc EXCEPT !.best_plain = Some(decoded.text)]
                 ELSE IF mime = "text/html" /\ ~acc.best_html.set
                 THEN [acc EXCEPT !.best_html = Some(decoded.text)]
                 ELSE acc
            ELSE acc
        \* for child in part.get("parts", []) or []: walk(child)
        children[i \in 0..Len(part.parts)] ==
            IF i = 0 THEN here ELSE walk(part.parts[i], children[i - 1])
    IN  children[Len(part.parts)]

BodyRaised == [raised |-> TRUE, mimeType |-> "None", content |-> <<>>]
BodyOf(mime, content) == [raised |-> FALSE, mimeType |-> mime, content |-> content]

\* select_body that looks at the html accumulator first.
select_body_html_first(acc) ==
    IF acc.raised THEN BodyRaised
    ELSE IF acc.best_html.set THEN BodyOf("text/html", acc.best_html.text)
    ELSE IF acc.best_plain.set THEN BodyOf("text/plain", acc.best_plain.text)
    ELSE BodyOf("None", <<>>)

\* select(acc): lines 58-62, the choice among the two accumulators.
select_body(acc) ==
    IF acc.raised THEN BodyRaised
    ELSE IF acc.best_plain.set THEN BodyOf("text/plain", acc.best_plain.text)
    ELSE IF acc.best_html.set THEN BodyOf("text/html", acc.best_html.text)
    ELSE BodyOf("None", <<>>)

NoBest == [best_plain |-> None, best_html |-> None, raised |-> FALSE]

walk_payload(p) == walk(p, NoBest)

\* extract_body_text(payload); mimeType "None" is Python's None.
extract_body_text(p) == select_body(walk_payload(p))

-----------------------------------------------------------------------------
(* JSON values, as json.loads builds them *)

(* Every value is a record of one shape, so that any two can be compared:
     t  the type: "str", "num", "bool", "null", "obj", "arr", "nonfinite"
     s  the characters of a str (or the name of a non-finite float)
     n  <<mantissa, exponent>> of a finite number, mantissa * 10^exponent
     b  the truth value of a bool
     o  the dict of an object: a function from keys to values
     a  the items of an array
   and the fields that do not belong to the type hold a fixed filler.        *)
EmptyDict == [k \in {} |-> 0]

JVal(t, s, n, b, o, a) == [t |-> t, s |-> s, n |-> n, b |-> b, o |-> o, a |-> a]

JStr(chars)  == JVal("str", chars, <<0, 0>>, FALSE, EmptyDict, <<>>)
JBool(b)     == JVal("bool", <<>>, <<0, 0>>, b, EmptyDict, <<>>)
JNull        == JVal("null", <<>>, <<0, 0>>, FALSE, EmptyDict, <<>>)
JObj(f)      == JVal("obj", <<>>, <<0, 0>>, FALSE, f, <<>>)
JArr(items)  == JVal("arr", <<>>, <<0, 0>>, FALSE, EmptyDict, items)
\* NaN, Infinity, -Infinity
JSpecial(nm) == JVal("nonfinite", nm, <<0, 0>>, FALSE, EmptyDict, <<>>)

\* A finite number is kept normalised so that equal numbers (1, 1.0, 10e-1)
\* are equal values, as they are under Python's ==.
RECURSIVE NormNum(_, _)
NormNum(m, e) ==
    IF m = 0 THEN <<0, 0>>
    ELSE IF m % 10 = 0 THEN NormNum(m \div 10, e + 1)
    ELSE <<m, e>>

JNum(m, e) == JVal("num", <<>>, NormNum(m, e), FALSE, EmptyDict, <<>>)

-----------------------------------------------------------------------------
(* json.loads, as called on lines 21 and 26 of src/classify_intent.py *)

\* The character at 1-based position i, or a marker no character equals.
At(s, i) == IF i >= 1 /\ i <= Len(s) THEN s[i] ELSE "<end>"

StartsWithAt(s, i, lit) ==
    /\ i + Len(lit) - 1 <= Len(s)
    /\ SubSeq(s, i, i + Len(lit) - 1) = lit

\* json.decoder.WHITESPACE: [ \t\n\r]*
JsonWs == {" ", "\t", "\n", "\r"}

RECURSIVE skip_ws(_, _)
skip_ws(s, i) == IF At(s, i) \in JsonWs THEN skip_ws(s, i + 1) ELSE i

\* Characters below U+0020, which a strict JSON string may not hold raw.  The
\* backspace, which has no TLA+ literal, is the atom "U+0008".
ControlChars == {"\t", "\n", "\r", "\f", "U+0008"}

\* json.decoder.BACKSLASH
Backslash ==
    [c \in {"\"", "\\", "/", "b", "f", "n", "r", "t"} |->
        CASE c = "\"" -> "\""
          [] c = "\\" -> "\\"
          [] c = "/"  -> "/"
          [] c = "b"  -> "U+0008"
          [] c = "f"  -> "\f"
          [] c = "n"  -> "\n"
          [] c = "r"  -> "\r"
          [] c = "t"  -> "\t"]

DigitChars == <<"0", "1", "2", "3", "4", "5", "6", "7", "8", "9">>
Digits == {DigitChars[i] : i \in 1..10}
DigitVal == [c \in Digits |-> (CHOOSE i \in 1..10 : DigitChars[i] = c) - 1]

HexVal(c) ==
    IF c \in Digits THEN DigitVal[c]
    ELSE CASE c \in {"a", "A"} -> 10 [] c \in {"b", "B"} -> 11
           [] c \in {"c", "C"} -> 12 [] c \in {"d", "D"} -> 13
           [] c \in {"e", "E"} -> 14 [] c \in {"f", "F"} -> 15
           [] OTHER -> 16

HexChars == <<"0", "1", "2", "3", "4", "5", "6", "7",
              "8", "9", "A", "B", "C", "D", "E", "F">>

\* The printable ASCII characters, U+0020 .. U+007E, in code order (the grave
\* accent, which a TLA+ string cannot hold, is the atom "U+0060").
AsciiChars ==
    << " ", "!", "\"", "#", "$", "%", "&", "'", "(", ")", "*", "+", ",", "-",
       ".", "/", "0", "1", "2", "3", "4", "5", "6", "7", "8", "9", ":", ";",
       "<", "=", ">", "?", "@", "A", "B", "C", "D", "E", "F", "G", "H", "I",
       "J", "K", "L", "M", "N", "O", "P", "Q", "R", "S", "T", "U", "V", "W",
       "X", "Y", "Z", "[", "\\", "]", "^", "_", "U+0060", "a", "b", "c", "d", "e",
       "f", "g", "h", "i", "j", "k", "l", "m", "n", "o", "p", "q", "r", "s",
       "t", "u", "v", "w", "x", "y", "z", "{", "|", "}", "~" >>

\* chr(code) for a \uXXXX escape.  A code outside printable ASCII is the atom
\* "U+XXXX" (9, 10, 12, 13 are the characters TLA+ can write).  Surrogate
\* pairs are not joined.
Chr(code) ==
    IF code >= 32 /\ code <= 126 THEN AsciiChars[code - 31]
    ELSE CASE code = 9  -> "\t"
           [] code = 10 -> "\n"
           [] code = 12 -> "\f"
           [] code = 13 -> "\r"
           [] OTHER -> "U+" \o HexChars[(code \div 4096) + 1]
                            \o HexChars[((code \div 256) % 16) + 1]
                            \o HexChars[((code \div 16) % 16) + 1]
                            \o HexChars[(code % 16) + 1]

ParseFail == [ok |-> FALSE, val |-> JNull, end |-> 0]
ParseOk(val, end) == [ok |-> TRUE, val |-> val, end |-> end]

\* json.decoder.scanstring(s, i, strict=True); i is the position after the
\* opening quote.  Succeeds with the characters and the position after the
\* closing quote.
RECURSIVE scanstring(_, _, _)
scanstring(s, i, acc) ==
    LET c == At(s, i) IN
    IF i > Len(s) THEN ParseFail                \* Unterminated string
    ELSE IF c = "\"" THEN ParseOk(acc, i + 1)
    ELSE IF c = "\\"
    THEN LET esc == At(s, i + 1) IN
         IF esc \in DOMAIN Backslash
         THEN scanstring(s, i + 2, Append(acc, Backslash[esc]))
         ELSE IF esc = "u"
              THEN IF \A k \in 2..5 : HexVal(At(s, i + k)) < 16
                   THEN scanstring(s, i + 6, Append(acc,
                            Chr(HexVal(At(s, i + 2)) * 4096
                                + HexVal(At(s, i + 3)) * 256
                                + HexVal(At(s, i + 4)) * 16
                                + HexVal(At(s, i + 5)))))
                   ELSE ParseFail               \* Invalid \uXXXX escape
              ELSE ParseFail                    \* Invalid \escape
    ELSE IF c \in ControlChars THEN ParseFail   \* Invalid control character
    ELSE scanstring(s, i + 1, Append(acc, c))

\* \d* from position i: where the run ends, its value and its length.
RECURSIVE scan_digits(_, _, _, _)
scan_digits(s, i, val, n) ==
    IF At(s, i) \in Digits
    THEN scan_digits(s, i + 1, val * 10 + DigitVal[At(s, i)], n + 1)
    ELSE [end |-> i, val |-> val, n |-> n]

RECURSIVE Pow10(_)
Pow10(n) == IF n <= 0 THEN 1 ELSE 10 * Pow10(n - 1)

\* json.scanner.NUMBER_RE.match(s, i):
\*   (-?(?:0|[1-9]\d*))(\.\d+)?([eE][-+]?\d+)?
\* matched group by group; int and frac are the runs of digits matched so far.
number_value(neg, int, frac, exp, end) ==
    LET mant == int.val * Pow10(frac.n) + frac.val
    IN  ParseOk(JNum(IF neg THEN 0 - mant ELSE mant, exp - frac.n), end)

\* ([eE][-+]?\d+)?  after the fraction; ed is the run of digits after the sign.
match_exponent(s, neg, int, frac, ed) ==
    IF At(s, frac.end) \in {"e", "E"} /\ ed.n > 0
    THEN number_value(neg, int, frac,
                      IF At(s, frac.end + 1) = "-" THEN 0 - ed.val ELSE ed.val,
                      ed.end)
    ELSE number_value(neg, int, frac, 0, frac.end)

\* (\.\d+)?  after the integer part; fd is the run of digits after the point.
match_fraction(s, neg, int, frac) ==
    match_exponent(s, neg, int, frac,
                   scan_digits(s, IF At(s, frac.end + 1) \in {"+", "-"}
                                  THEN frac.end + 2 ELSE frac.end + 1, 0, 0))

match_integer(s, neg, int, fd) ==
    IF int.n = 0 THEN ParseFail
    ELSE match_fraction(s, neg, int,
                        IF At(s, int.end) = "." /\ fd.n > 0
                        THEN fd ELSE [end |-> int.end, val |-> 0, n |-> 0])

match_digits_after(s, neg, int) ==
    match_integer(s, neg, int, scan_digits(s, int.end + 1, 0, 0))

match_number(s, i) ==
    LET j == IF At(s, i) = "-" THEN i + 1 ELSE i
    IN  match_digits_after(s, At(s, i) = "-",
                           IF At(s, j) = "0" THEN [end |-> j + 1, val |-> 0, n |-> 1]
                           ELSE scan_digits(s, j, 0, 0))

Lit_null == <<"n", "u", "l", "l">>
Lit_true == <<"t", "r", "u", "e">>
Lit_false == <<"f", "a", "l", "s", "e">>
Lit_NaN == <<"N", "a", "N">>
Lit_Infinity == <<"I", "n", "f", "i", "n", "i", "t", "y">>
Lit_NegInfinity == <<"-">> \o Lit_Infinity

\* json.scanner.py_make_scanner._scan_once, with JSONObject and JSONArray of
\* json.decoder.  Every failure is a JSONDecodeError.
RECURSIVE scan_once(_, _), JSONObject(_, _, _), JSONArray(_, _, _)

\* The pair loop of JSONObject, one step per operator; each step is handed
\* what the steps before it have read.  A repeated key keeps the last value,
\* as dict(pairs) does.
object_more(s, dict, more) ==
    IF At(s, more) # "\"" THEN ParseFail           \* Expecting property name
    ELSE JSONObject(s, more + 1, dict)

object_next(s, dict, next) ==
    IF At(s, next) = "}" THEN ParseOk(JObj(dict), next + 1)
    ELSE IF At(s, next) # "," THEN ParseFail        \* Expecting ',' delimiter
    ELSE object_more(s, dict, skip_ws(s, next + 1))

object_value(s, pairs, key, value) ==
    IF ~value.ok THEN ParseFail                     \* Expecting value
    ELSE object_next(s, (key.val :> value.val) @@ pairs, skip_ws(s, value.end))

object_colon(s, pairs, key, colon) ==
    IF At(s, colon) # ":" THEN ParseFail            \* Expecting ':' delimiter
    ELSE object_value(s, pairs, key, scan_once(s, skip_ws(s, colon + 1)))

object_key(s, pairs, key) ==
    IF ~key.ok THEN ParseFail
    ELSE object_colon(s, pairs, key, skip_ws(s, key.end))

\* i is the position after a key's opening quote.
JSONObject(s, i, pairs) == object_key(s, pairs, scanstring(s, i, <<>>))

\* The item loop of JSONArray; i is the position of the next item.
array_next(s, items, next) ==
    IF At(s, next) = "]" THEN ParseOk(JArr(items), next + 1)
    ELSE IF At(s, next) # "," THEN ParseFail
    ELSE JSONArray(s, skip_ws(s, next + 1), items)

array_value(s, items, value) ==
    IF ~value.ok THEN ParseFail
    ELSE array_next(s, Append(items, value.val), skip_ws(s, value.end))

JSONArray(s, i, items) == array_value(s, items, scan_once(s, i))

scan_string(r) == IF r.ok THEN ParseOk(JStr(r.val), r.end) ELSE ParseFail

scan_object(s, j) ==
    IF At(s, j) = "}" THEN ParseOk(JObj(EmptyDict), j + 1)
    ELSE IF At(s, j) # "\"" THEN ParseFail          \* Expecting property name
    ELSE JSONObject(s, j + 1, EmptyDict)

scan_array(s, j) ==
    IF At(s, j) = "]" THEN ParseOk(JArr(<<>>), j + 1)
    ELSE JSONArray(s, j, <<>>)

\* The tail of _scan_once: a number if NUMBER_RE matched, else the three
\* constants json accepts beyond the standard.
scan_number(s, i, m) ==
    IF m.ok THEN m
    ELSE IF StartsWithAt(s, i, Lit_NaN) THEN ParseOk(JSpecial(Lit_NaN), i + 3)
    ELSE IF StartsWithAt(s, i, Lit_Infinity)
         THEN ParseOk(JSpecial(Lit_Infinity), i + 8)
    ELSE IF StartsWithAt(s, i, Lit_NegInfinity)
         THEN ParseOk(JSpecial(Lit_NegInfinity), i + 9)
    ELSE ParseFail                              \* Expecting value

scan_once(s, i) ==
    IF i > Len(s) THEN ParseFail
    ELSE IF At(s, i) = "\"" THEN scan_string(scanstring(s, i + 1, <<>>))
    ELSE IF At(s, i) = "{" THEN scan_object(s, skip_ws(s, i + 1))
    ELSE IF At(s, i) = "[" THEN scan_array(s, skip_ws(s, i + 1))
    ELSE IF StartsWithAt(s, i, Lit_null) THEN ParseOk(JNull, i + 4)
    ELSE IF StartsWithAt(s, i, Lit_true) THEN ParseOk(JBool(TRUE), i + 4)
    ELSE IF StartsWithAt(s, i, Lit_false) THEN ParseOk(JBool(FALSE), i + 5)
    ELSE scan_number(s, i, match_number(s, i))

decode_end(s, r) ==
    IF ~r.ok THEN ParseFail
    ELSE IF skip_ws(s, r.end) # Len(s) + 1 THEN ParseFail   \* Extra data
    ELSE r

\* json.loads(s): JSONDecoder.decode.  ok = FALSE is a JSONDecodeError.
json_loads(s) == decode_end(s, scan_once(s, skip_ws(s, 1)))

-----------------------------------------------------------------------------
(* src/classify_intent.py: _extract_json *)

\* The whitespace str.strip() removes, as far as TLA+ can write it.
PyWs == {" ", "\t", "\n", "\r", "\f"}

RECURSIVE lstrip(_)
lstrip(s) == IF s # <<>> /\ Head(s) \in PyWs THEN lstrip(Tail(s)) ELSE s

RECURSIVE rstrip(_)
rstrip(s) ==
    IF s # <<>> /\ s[Len(s)] \in PyWs THEN rstrip(SubSeq(s, 1, Len(s) - 1)) ELSE s

strip(s) == rstrip(lstrip(s))

startswith(s, c) == s # <<>> /\ s[1] = c
endswith(s, c) == s # <<>> /\ s[Len(s)] = c

SetMin(S) == CHOOSE x \in S : \A y \in S : x <= y
SetMax(S) == CHOOSE x \in S : \A y \in S : x >= y

NoMatch == [found |-> FALSE, group0 |-> <<>>]

\* re.search(r"\{.*\}", s) without re.DOTALL: '.' stops at a newline, so the
\* leftmost '{' that has a '}' later on its own line starts the match.
re_search_no_dotall(s) ==
    LET lineEnd(i) == SetMin({j \in i..Len(s) : s[j] = "\n"} \cup {Len(s) + 1})
        closes(i)  == {j \in (i + 1)..(lineEnd(i) - 1) : s[j] = "}"}
        opens      == {i \in 1..Len(s) : s[i] = "{" /\ closes(i) # {}}
    IN  IF opens = {} THEN NoMatch
        ELSE [found |-> TRUE,
              group0 |-> SubSeq(s, SetMin(opens), SetMax(closes(SetMin(opens))))]

\* re.search(r"\{.*\}", s, re.DOTALL): the leftmost '{' that has a '}' after
\* it starts the match, and the greedy .* runs to the last '}' of the text.
re_search(s) ==
    LET opens  == {i \in 1..Len(s) : s[i] = "{"}
        first  == SetMin(opens)
        closes == {j \in (first + 1)..Len(s) : s[j] = "}"}
    IN  IF opens = {} THEN NoMatch
        ELSE IF closes = {} THEN NoMatch
        ELSE [found |-> TRUE, group0 |-> SubSeq(s, first, SetMax(closes))]

\* What a call of _extract_json comes to: the dict it returns, or the
\* exception it raises.
Returned(d)     == [kind |-> "dict", val |-> d]
ValueError      == [kind |-> "ValueError: Model did not return JSON.",
                    val |-> JObj(EmptyDict)]
JSONDecodeError == [kind |-> "JSONDecodeError", val |-> JObj(EmptyDict)]

Loaded(r) == IF r.ok THEN Returned(r.val) ELSE JSONDecodeError

\* _extract_json with the fast path dropped and a lazy pattern, \{.*?\}.
extract_json_lazy(raw) ==
    LET s      == strip(raw)
        opens  == {i \in 1..Len(s) : s[i] = "{"}
        first  == SetMin(opens)
        closes == {j \in (first + 1)..Len(s) : s[j] = "}"}
    IN  IF opens = {} THEN ValueError
        ELSE IF closes = {} THEN ValueError
        ELSE Loaded(json_loads(SubSeq(s, first, SetMin(closes))))

_extract_json(raw) ==
    LET s == strip(raw) IN
    IF startswith(s, "{") /\ endswith(s, "}")
    THEN Loaded(json_loads(s))
    ELSE LET m == re_search(s) IN
         IF ~m.found THEN ValueError
         ELSE Loaded(json_loads(m.group0))

-----------------------------------------------------------------------------
(* src/classify_intent.py: extract_datetime_with_ollama *)

K_start_iso == <<"s", "t", "a", "r", "t", "_", "i", "s", "o">>
K_end_iso == <<"e", "n", "d", "_", "i", "s", "o">>
K_timezone == <<"t", "i", "m", "e", "z", "o", "n", "e">>
K_needs_clarification ==
    <<"n", "e", "e", "d", "s", "_", "c", "l", "a", "r", "i", "f", "i", "c",
      "a", "t", "i", "o", "n">>
K_clarification_question ==
    <<"c", "l", "a", "r", "i", "f", "i", "c", "a", "t", "i", "o", "n", "_",
      "q", "u", "e", "s", "t", "i", "o", "n">>

TwoDigits(n) == <<DigitChars[(n \div 10) + 1], DigitChars[(n % 10) + 1]>>

(* A datetime is [aware, utcoffset]: utcoffset is the offset from UTC in
   whole minutes, and aware = FALSE is a naive datetime (no tzinfo).         *)
\* now.strftime("%z"): "" for a naive datetime, else sign, hours, minutes.
strftime_z(dt) ==
    IF ~dt.aware THEN <<>>
    ELSE LET off == IF dt.utcoffset < 0 THEN 0 - dt.utcoffset ELSE dt.utcoffset
         IN  <<IF dt.utcoffset < 0 THEN "-" ELSE "+">>
                 \o TwoDigits(off \div 60) \o TwoDigits(off % 60)

\* dict.setdefault that assigns whether or not the key is there.
setdefault_overwrite(d, k, v) == (k :> v) @@ d

\* dict.setdefault(k, v) for its effect on the dict.
setdefault(d, k, v) == IF k \in DOMAIN d THEN d ELSE (k :> v) @@ d

\* Lines 107-111 on the dict the coercer returned.
fill_defaults(d, tz_offset) ==
    LET d1 == setdefault(d, K_timezone, JStr(tz_offset))
        d2 == setdefault(d1, K_start_iso, JStr(<<>>))
        d3 == setdefault(d2, K_end_iso, JStr(<<>>))
        d4 == setdefault(d3, K_needs_clarification, JBool(FALSE))
    IN  setdefault(d4, K_clarification_question, JStr(<<>>))

\* What a chat call comes to: the assistant's text, or an exception.
ChatFailed == [ok |-> FALSE, content |-> <<>>]
ChatReply(content) == [ok |-> TRUE, content |-> content]

DtRaised(coerced) == [raised |-> TRUE, coerced |-> coerced, data |-> EmptyDict]

\* extract_datetime_with_ollama, given the resolved `now` and what
\* Client().chat came to.  `coerced` keeps what _extract_json came to.
extract_datetime_with_ollama(dt, reply) ==
    LET tz_offset == strftime_z(dt)
        coerced   == _extract_json(reply.content)
    IN  IF ~reply.ok THEN DtRaised(ValueError)
        ELSE IF coerced.kind # "dict" THEN DtRaised(coerced)
        ELSE [raised |-> FALSE, coerced |-> coerced,
              data |-> fill_defaults(coerced.val.o, tz_offset)]

-----------------------------------------------------------------------------
(* src/main.py: the mailbox calls *)

(* The mailbox is the sequence of INBOX messages, newest first; a message is
   [id, payload].  A call to the Gmail API may also fail (network, auth).    *)

\* users.messages.list(userId="me", maxResults=1, labelIds=["INBOX"]):
\* resp.get("messages", []), at most one entry, the newest.
messages_list(box) == Prefix([i \in 1..Len(box) |-> box[i].id], 1)

\* `msgs[0]["id"] if msgs else None`, without the emptiness test: an empty
\* listing yields the id of no message.
get_most_recent_message_id_unchecked(box) ==
    LET msgs == messages_list(box) IN
    IF msgs # <<>> THEN [set |-> TRUE, id |-> msgs[1]]
    ELSE [set |-> TRUE, id |-> "m0"]

\* get_most_recent_message_id(service, inbox_only=True)
get_most_recent_message_id(box) ==
    LET msgs == messages_list(box) IN
    IF msgs # <<>> THEN [set |-> TRUE, id |-> msgs[1]]
    ELSE [set |-> FALSE, id |-> ""]

\* users.messages.get(userId="me", id=message_id, format="full"): the
\* message, or an HTTP error for an id the mailbox does not hold.
messages_get(box, id) ==
    LET hits == {i \in 1..Len(box) : box[i].id = id} IN
    IF hits = {} THEN [ok |-> FALSE, msg |-> [id |-> id, payload |-> Part("", FALSE, <<>>, <<>>)]]
    ELSE [ok |-> TRUE, msg |-> box[SetMin(hits)]]

\* fetch_message_structured(service, message_id), reduced to the fields the
\* callers read: the id and the body.  The header and date handling cannot
\* raise and feeds nothing downstream.
fetch_message_structured(box, id) ==
    LET got == messages_get(box, id) IN
    IF ~got.ok THEN [raised |-> TRUE, id |-> id, body |-> BodyRaised]
    ELSE LET body == extract_body_text(got.msg.payload) IN
         [raised |-> body.raised, id |-> got.msg.id, body |-> body]

-----------------------------------------------------------------------------
(* src/classify_intent.py: the __main__ block *)

L_INTENT_SCHEDULE_MEETING ==
    <<"I", "N", "T", "E", "N", "T", "_", "S", "C", "H", "E", "D", "U", "L",
      "E", "_", "M", "E", "E", "T", "I", "N", "G">>
L_SCHEDULE_MEETING ==
    <<"S", "C", "H", "E", "D", "U", "L", "E", "_", "M", "E", "E", "T", "I",
      "N", "G">>
L_REQUEST_SCHEDULED_MEETING ==
    <<"R", "E", "Q", "U", "E", "S", "T", "_", "S", "C", "H", "E", "D", "U",
      "L", "E", "D", "_", "M", "E", "E", "T", "I", "N", "G">>
L_OTHER == <<"O", "T", "H", "E", "R">>
K_label == <<"l", "a", "b", "e", "l">>

ALLOWED == {L_INTENT_SCHEDULE_MEETING, L_REQUEST_SCHEDULED_MEETING, L_OTHER}

\* The test of line 129 with any label of ALLOWED but OTHER taken as a
\* scheduling intent.
is_schedule_intent_loose(label) ==
    label.t = "str" /\ label.s \in ALLOWED \ {L_OTHER}

\* result2["label"] == "INTENT_SCHEDULE_MEETING"
is_schedule_intent(label) == label = JStr(L_INTENT_SCHEDULE_MEETING)

\* Lines 124-130 with a coercion failure swallowed and taken as the
\* scheduling intent.
dispatch_swallow(coerced) ==
    IF coerced.kind # "dict" THEN "main:intent"
    ELSE IF K_label \notin DOMAIN coerced.val.o THEN "main:crashed"
    ELSE IF is_schedule_intent(coerced.val.o[K_label]) THEN "main:intent"
    ELSE "main:done"

\* Lines 124-130: where the run goes once the classifier's reply has been
\* through _extract_json.  An exception of _extract_json, or the KeyError of
\* result2["label"], is unhandled and ends the process.
dispatch(coerced) ==
    IF coerced.kind # "dict" THEN "main:crashed"
    ELSE IF K_label \notin DOMAIN coerced.val.o THEN "main:crashed"
    ELSE IF is_schedule_intent(coerced.val.o[K_label]) THEN "main:intent"
    ELSE "main:done"

-----------------------------------------------------------------------------
(* json.dumps, which writes the texts the operations are run on *)

EscapeChar(c) ==
    CASE c = "\"" -> <<"\\", "\"">>
      [] c = "\\" -> <<"\\", "\\">>
      [] c = "\n" -> <<"\\", "n">>
      [] c = "\r" -> <<"\\", "r">>
      [] c = "\t" -> <<"\\", "t">>
      [] c = "\f" -> <<"\\", "f">>
      [] OTHER    -> <<c>>

RECURSIVE Join(_, _)
Join(seqs, sep) ==
    IF seqs = <<>> THEN <<>>
    ELSE IF Len(seqs) = 1 THEN seqs[1]
    ELSE seqs[1] \o sep \o Join(Tail(seqs), sep)

Quoted(chars) ==
    <<"\"">> \o Join([i \in 1..Len(chars) |-> EscapeChar(chars[i])], <<>>)
             \o <<"\"">>

RECURSIVE NatChars(_)
NatChars(n) ==
    IF n < 10 THEN <<DigitChars[n + 1]>>
    ELSE NatChars(n \div 10) \o <<DigitChars[(n % 10) + 1]>>

RECURSIVE ZeroPad(_, _)
ZeroPad(chars, width) ==
    IF Len(chars) >= width THEN chars ELSE ZeroPad(<<"0">> \o chars, width)

\* A number m * 10^e in decimal notation.
NumChars(m, e) ==
    LET a == IF m < 0 THEN 0 - m ELSE m
        sign == IF m < 0 THEN <<"-">> ELSE <<>>
    IN  IF e >= 0 THEN sign \o NatChars(a * Pow10(e))
        ELSE sign \o NatChars(a \div Pow10(0 - e)) \o <<".">>
                  \o ZeroPad(NatChars(a % Pow10(0 - e)), 0 - e)

\* The order in which a dict's keys are written.
KeyOrder ==
    << K_label, K_start_iso, K_end_iso, K_timezone, K_needs_clarification,
       K_clarification_question,
       <<"c", "o", "n", "f", "i", "d", "e", "n", "c", "e">>,
       <<"r", "a", "t", "i", "o", "n", "a", "l", "e">>,
       <<"a">>, <<"b", "{">>, <<"c">> >>

\* style "default" is json.dumps(v); "compact" has separators=(",", ":").
RECURSIVE dumps(_, _)
dumps(v, style) ==
    LET itemSep == IF style = "compact" THEN <<",">> ELSE <<",", " ">>
        keySep  == IF style = "compact" THEN <<":">> ELSE <<":", " ">>
    IN  CASE v.t = "str"  -> Quoted(v.s)
          [] v.t = "num"  -> NumChars(v.n[1], v.n[2])
          [] v.t = "bool" -> IF v.b THEN Lit_true ELSE Lit_false
          [] v.t = "null" -> Lit_null
          [] v.t = "arr"  ->
                <<"[">> \o Join([i \in 1..Len(v.a) |-> dumps(v.a[i], style)],
                                itemSep) \o <<"]">>
          [] v.t = "nonfinite" -> v.s
          [] v.t = "obj"  ->
                LET keys == SelectSeq(KeyOrder, LAMBDA k : k \in DOMAIN v.o) IN
                <<"{">> \o Join([i \in 1..Len(keys) |->
                                    Quoted(keys[i]) \o keySep
                                        \o dumps(v.o[keys[i]], style)],
                                itemSep) \o <<"}">>

-----------------------------------------------------------------------------
(* The inputs the operations are run on *)

\* MIME parts: what a node of a generated tree can be.
PartKinds ==
    { Part("multipart/alternative", FALSE, <<>>, <<>>),
      Part("text/plain", TRUE, <<"a", "G", "k", "=">>, <<>>),     \* "hi"
      Part("text/plain", TRUE, <<"w", "6", "k", "=">>, <<>>),     \* e-acute
      Part("text/plain", TRUE, <<>>, <<>>),                       \* data ""
      Part("text/html", TRUE, <<"P", "G", "I", "-">>, <<>>),      \* "<b>"
      Part("text/html", TRUE, <<"_", "w", "=", "=">>, <<>>),      \* byte FF
      Part("text/html", FALSE, <<>>, <<>>),                       \* no data
      Part("image/png", TRUE, <<"a", "G", "k">>, <<>>) }          \* bad padding

\* `payload or {}` of line 56: a missing payload is a part with nothing in it.
EmptyPayload == Part("", FALSE, <<>>, <<>>)

\* The shapes of the trees of k parts: the depth of each part, the parts
\* taken in document order.  The root is at depth 0 and a part is at most one
\* deeper than the part before it.
ShapesOfSize(k) ==
    { d \in [1..k -> 0..(k - 1)] :
          d[1] = 0 /\ \A i \in 2..k : d[i] >= 1 /\ d[i] <= d[i - 1] + 1 }

\* The tree of shape d whose i-th part in document order is of kind kinds[i]:
\* the subtree at part i.
RECURSIVE BuildTree(_, _, _)
BuildTree(d, kinds, i) ==
    LET last == SetMax({ j \in i..Len(d) : \A m \in (i + 1)..j : d[m] > d[i] })
        kids == SelectSeq([m \in 1..(last - i) |-> i + m],
                          LAMBDA m : d[m] = d[i] + 1)
    IN  Part(kinds[i].mimeType, kinds[i].hasData, kinds[i].data,
             [c \in 1..Len(kids) |-> BuildTree(d, kinds, kids[c])])

\* JSON objects.
GenKeys == { <<"a">>, <<"b", "{">>, <<"c">> }
GenValues ==
    { JStr(<<>>), JStr(<<"}", "\"">>), JNum(1, 0), JNum(9, -1), JBool(TRUE),
      JNull, JArr(<<JNum(-5, 0)>>), JObj(<<"a">> :> JStr(<<"x", "\n">>)) }
ObjectsUpTo(n) ==
    { JObj(f) : f \in UNION { [K -> GenValues] :
                  K \in {K \in SUBSET GenKeys : Cardinality(K) <= n} } }

\* The object and the text of the specification's example.
ExampleObj ==
    JObj(K_label :> JStr(L_OTHER)
         @@ <<"c", "o", "n", "f", "i", "d", "e", "n", "c", "e">> :> JNum(9, -1)
         @@ <<"r", "a", "t", "i", "o", "n", "a", "l", "e">> :>
                JStr(<<"n", "o", " ", "t", "i", "m", "e", " ", "g", "i", "v", "e", "n">>))
ExampleLead == <<"S", "u", "r", "e", ",", " ", "h", "e", "r", "e", " ", "y", "o", "u", " ", "g", "o", ":", "\n">>
ExampleTrail == <<"\n", "T", "h", "a", "n", "k", "s", "!">>

\* Commentary around the payload: none, whitespace, prose, prose with braces.
Leads  == { <<>>, <<" ", "\n">>, <<"H", "i", ":", "\n">>,
            <<"{", "b", "}", " ">>, <<"}", " ">> }
Trails == { <<>>, <<"\n", " ">>, <<"\n", "O", "K">>,
            <<" ", "{", "c", "}">>, <<" ", "{">> }
Blank == { <<>>, <<" ", "\n">>, <<"\n", " ">> }

\* Payloads that are not the serialised form of an object.
RawCores ==
    { <<>>, <<"n", "o">>, <<"{">>, <<"}">>, <<"}", "{">>, <<"{", "a", "}">>,
      <<"{", "\n", "}">>, <<"{", "\"", "a", "\"", ":", "}">>,
      <<"{", "\"", "a", "\"", ":", "\n", "1", "}">>,
      <<"{", "\"", "a", "\"", ":", "\n", "}">>,
      <<"{", "\"", "a", "\"", ":", "0", "1", "}">>,
      <<"{", "\"", "a", "\"", ":", "1", ",", "}">> }

GivenObject(lead, obj, style, trail) ==
    [kind |-> "object", lead |-> lead, obj |-> obj, style |-> style,
     raw |-> <<>>, trail |-> trail]
GivenRaw(lead, raw, trail) ==
    [kind |-> "raw", lead |-> lead, obj |-> JObj(EmptyDict), style |-> "compact",
     raw |-> raw, trail |-> trail]
NoGiven == [kind |-> "none", lead |-> <<>>, obj |-> JObj(EmptyDict),
            style |-> "compact", raw |-> <<>>, trail |-> <<>>]

GivensUpTo(n) ==
    { GivenObject(l, o, st, t) :
          l \in Leads, o \in ObjectsUpTo(n), st \in {"compact", "default"}, t \in Trails }
    \cup { GivenRaw(l, r, t) : l \in Leads, r \in RawCores, t \in Trails }
    \cup { GivenObject(ExampleLead, ExampleObj, "compact", ExampleTrail) }

TextOf(g) ==
    g.lead \o (IF g.kind = "object" THEN dumps(g.obj, g.style) ELSE g.raw)
           \o g.trail

\* The `now` argument: none is TRUE for now=None.
Datetime(aware, minutes) == [none |-> FALSE, aware |-> aware, utcoffset |-> minutes]
NowNone == [none |-> TRUE, aware |-> FALSE, utcoffset |-> 0]
LocalOffsets == {-480, 60}
NowArgs == { NowNone, Datetime(FALSE, 0), Datetime(TRUE, 0),
             Datetime(TRUE, -480), Datetime(TRUE, 330) }

\* What the datetime model may answer: per required key nothing, a value of
\* the asked type, or a value of another type; and perhaps a key not asked for.
RequiredKeys == { K_start_iso, K_end_iso, K_timezone, K_needs_clarification,
                  K_clarification_question }
DtKeySeq == << K_start_iso, K_end_iso, K_timezone, K_needs_clarification,
               K_clarification_question, <<"a">> >>
DtValues(k) ==
    CASE k = K_start_iso -> { JStr(<<"T", "1">>), JNum(1, 0) }
      [] k = K_end_iso   -> { JStr(<<"T", "2">>), JNull }
      [] k = K_timezone  -> { JStr(<<"U", "T", "C">>), JNum(-8, 0) }
      [] k = K_needs_clarification -> { JBool(TRUE), JStr(<<"n", "o">>) }
      [] k = K_clarification_question -> { JStr(<<"?">>), JBool(FALSE) }
      [] OTHER -> { JNum(1, 0) }

\* Every dict over the keys keys[i], keys[i+1], ...
RECURSIVE DtDicts(_, _)
DtDicts(keys, i) ==
    IF i > Len(keys) THEN {EmptyDict}
    ELSE LET rest == DtDicts(keys, i + 1) IN
         rest \cup { (keys[i] :> v) @@ d : v \in DtValues(keys[i]), d \in rest }

DtRepliesOver(keys) ==
    { ChatFailed, ChatReply(<<"n", "o">>), ChatReply(<<"{", "\"", "a", "\"", "}">>) }
    \cup { ChatReply(dumps(JObj(d), "default")) : d \in DtDicts(keys, 1) }
    \cup { ChatReply(<<"H", "i", ":", "\n">> \o dumps(JObj(d), "compact")) :
               d \in { EmptyDict, K_timezone :> JStr(<<"U", "T", "C">>) } }

\* What the classifier model may answer.
ClassifierLabels ==
    { JStr(L_INTENT_SCHEDULE_MEETING), JStr(L_SCHEDULE_MEETING),
      JStr(L_REQUEST_SCHEDULED_MEETING), JStr(L_OTHER), JStr(<<"?">>), JNum(1, 0) }
ClassifierReplies ==
    { ChatFailed, ChatReply(<<"n", "o">>), ChatReply(<<"{", "\"", "a", "\"", "}">>),
      ChatReply(dumps(JObj(<<"a">> :> JNum(1, 0)), "default")) }
    \cup { ChatReply(dumps(JObj(K_label :> l @@ <<"a">> :> JNum(9, -1)), "default")) :
               l \in ClassifierLabels }
    \cup { ChatReply(<<"H", "i", ":", "\n">> \o dumps(JObj(K_label :> l), "compact")) :
               l \in { JStr(L_INTENT_SCHEDULE_MEETING), JStr(L_OTHER) } }

MainDtReplies ==
    { ChatFailed, ChatReply(<<"n", "o">>),
      ChatReply(dumps(JObj(EmptyDict), "default")),
      ChatReply(dumps(JObj(K_start_iso :> JStr(<<"T", "1">>)
                           @@ K_needs_clarification :> JBool(FALSE)), "default")) }

\* Mailboxes: empty, one message, two messages (newest first).
Message(id, p) == [id |-> id, payload |-> p]
MainPayloads ==
    { EmptyPayload,
      Part("text/plain", TRUE, <<"a", "G", "k", "=">>, <<>>),
      Part("multipart/alternative", FALSE, <<>>,
           << Part("text/html", TRUE, <<"P", "G", "I", "-">>, <<>>),
              Part("text/plain", TRUE, <<"a", "G", "k", "=">>, <<>>) >>),
      Part("image/png", TRUE, <<"a", "G", "k">>, <<>>) }
Inboxes ==
    { <<>> }
    \cup { <<Message("m1", p)>> : p \in MainPayloads }
    \cup { <<Message("m2", p), Message("m1", EmptyPayload)>> : p \in MainPayloads }

-----------------------------------------------------------------------------
(* The state a variable holds while its operation has not run *)

NoBody == BodyOf("None", <<>>)
NoResult == [kind |-> "none", val |-> JObj(EmptyDict)]
NoDt == [raised |-> FALSE, coerced |-> NoResult, data |-> EmptyDict]

Idle(except) ==
    /\ "payload" \in except \/ payload = EmptyPayload
    /\ "bodyResult" \in except \/ bodyResult = NoBody
    /\ "text" \in except \/ text = <<>>
    /\ "given" \in except \/ given = NoGiven
    /\ "jsonResult" \in except \/ jsonResult = NoResult
    /\ "now" \in except \/ now = NowNone
    /\ "dtResult" \in except \/ dtResult = NoDt
    /\ "inbox" \in except \/ inbox = <<>>
    /\ calls = <<>>
    /\ stdout = <<>>

-----------------------------------------------------------------------------
(* The body extractor on its own: extract_body_text(payload) *)

InitBody ==
    /\ pc = "body:call"
    /\ \/ payload = EmptyPayload
       \/ \E k \in 1..MaxNodes :
             \E d \in ShapesOfSize(k), kinds \in [1..k -> PartKinds] :
                payload = BuildTree(d, kinds, 1)
    /\ Idle({"payload"})

ExtractBodyText ==
    /\ pc = "body:call"
    /\ bodyResult' = extract_body_text(payload)
    /\ pc' = "body:done"
    /\ UNCHANGED <<payload, text, given, jsonResult, now, dtResult, inbox,
                   calls, stdout>>

NextBody == ExtractBodyText

SpecBody == InitBody /\ [][NextBody]_vars

-----------------------------------------------------------------------------
(* The JSON coercer on its own: _extract_json(text) *)

InitJson ==
    /\ pc = "json:call"
    /\ given \in GivensUpTo(MaxKeys)
    /\ text = TextOf(given)
    /\ Idle({"given", "text"})

ExtractJson ==
    /\ pc = "json:call"
    /\ jsonResult' = _extract_json(text)
    /\ pc' = "json:done"
    /\ UNCHANGED <<payload, bodyResult, text, given, now, dtResult, inbox,
                   calls, stdout>>

NextJson == ExtractJson

SpecJson == InitJson /\ [][NextJson]_vars

-----------------------------------------------------------------------------
(* The datetime extractor on its own: extract_datetime_with_ollama(_, now) *)

InitDatetime ==
    /\ pc = "dt:call"
    /\ now \in NowArgs
    /\ Idle({"now"})

\* Lines 65-66 resolve now=None from the clock; the chat call answers with
\* any reply, which `text` keeps.
ExtractDatetime ==
    /\ pc = "dt:call"
    /\ \E local \in LocalOffsets, reply \in DtRepliesOver(DtKeySeq) :
          /\ now' = IF now.none THEN Datetime(TRUE, local) ELSE now
          /\ text' = reply.content
          /\ dtResult' = extract_datetime_with_ollama(now', reply)
    /\ pc' = "dt:done"
    /\ UNCHANGED <<payload, bodyResult, given, jsonResult, inbox, calls, stdout>>

NextDatetime == ExtractDatetime

SpecDatetime == InitDatetime /\ [][NextDatetime]_vars

-----------------------------------------------------------------------------
(* One run of classify_intent.py *)

Call(op, arg) == [op |-> op, arg |-> arg]
Printed(what, val) == [what |-> what, val |-> val]

ErrNoMessages == <<"N", "o", " ", "m", "e", "s", "s", "a", "g", "e", "s", " ", "f", "o", "u", "n", "d", " ", "i", "n", " ", "I", "n", "b", "o", "x", ".">>

InitMain ==
    /\ pc = "main:start"
    /\ inbox \in Inboxes
    /\ Idle({"inbox"})

\* Line 122, body = get_latest_email_body_text().  The function is not in
\* src/main.py; it is the first three steps of main.py's own __main__ block
\* (lines 143-152) returning the structured message: list the newest id,
\* report and exit(0) when there is none, else fetch the message.
GetLatestEmailBodyText ==
    /\ pc = "main:start"
    /\ \/ \* users.messages.list fails
          /\ calls' = Append(calls, Call("messages.list", "error"))
          /\ pc' = "main:crashed"
          /\ UNCHANGED <<payload, bodyResult, stdout>>
       \/ \* the listing is empty
          /\ ~get_most_recent_message_id(inbox).set
          /\ calls' = Append(calls, Call("messages.list",
                         IF messages_list(inbox) = <<>> THEN "none"
                         ELSE messages_list(inbox)[1]))
          /\ stdout' = Append(stdout, Printed("error", JStr(ErrNoMessages)))
          /\ pc' = "main:exit0"
          /\ UNCHANGED <<payload, bodyResult>>
       \/ \* users.messages.get fails
          /\ get_most_recent_message_id(inbox).set
          /\ calls' = calls \o
                << Call("messages.list",
                        IF messages_list(inbox) = <<>> THEN "none"
                        ELSE messages_list(inbox)[1]),
                   Call("messages.get", "error") >>
          /\ pc' = "main:crashed"
          /\ UNCHANGED <<payload, bodyResult, stdout>>
       \/ \* the message is fetched and its body extracted
          /\ get_most_recent_message_id(inbox).set
          /\ LET id == get_most_recent_message_id(inbox).id
                 structured == fetch_message_structured(inbox, id)
             IN  /\ calls' = calls \o
                       << Call("messages.list",
                               IF messages_list(inbox) = <<>> THEN "none"
                               ELSE messages_list(inbox)[1]),
                          Call("messages.get",
                               IF messages_get(inbox, id).ok THEN id ELSE "error") >>
                 /\ payload' = messages_get(inbox, id).msg.payload
                 /\ bodyResult' = structured.body
                 /\ pc' = IF structured.raised THEN "main:crashed"
                          ELSE "main:classify"
          /\ UNCHANGED stdout
    /\ UNCHANGED <<text, given, jsonResult, now, dtResult, inbox>>

\* Line 123, result = classify_with_ollama(body["body"]["content"]): one chat
\* call, whose reply is returned unparsed.
ClassifyWithOllama ==
    /\ pc = "main:classify"
    /\ \E reply \in ClassifierReplies :
          /\ calls' = Append(calls, Call("chat", "classify"))
          /\ text' = reply.content
          /\ pc' = IF reply.ok THEN "main:coerce" ELSE "main:crashed"
    /\ UNCHANGED <<payload, bodyResult, given, jsonResult, now, dtResult,
                   inbox, stdout>>

\* Lines 124-129: result2 = _extract_json(result), the three prints, and the
\* test of the label.
CoerceAndDispatch ==
    /\ pc = "main:coerce"
    /\ jsonResult' = _extract_json(text)
    /\ calls' = Append(calls, Call("_extract_json",
                                   IF jsonResult'.kind = "dict" THEN "ok" ELSE "raised"))
    /\ pc' = dispatch(jsonResult')
    /\ stdout' =
          IF jsonResult'.kind # "dict" THEN stdout
          ELSE stdout \o << Printed("LOCAL_TZ", JNull), Printed("result", JStr(text)) >>
                      \o (IF K_label \in DOMAIN jsonResult'.val.o
                          THEN << Printed("label", jsonResult'.val.o[K_label]) >>
                          ELSE <<>>)
    /\ UNCHANGED <<payload, bodyResult, text, given, now, dtResult, inbox>>

\* Line 130, recieved_Intent(body["body"]["content"]): the datetime extractor
\* with now=None, then the print of start_iso.
RecievedIntent ==
    /\ pc = "main:intent"
    /\ \E local \in LocalOffsets, reply \in MainDtReplies :
          /\ now' = Datetime(TRUE, local)
          /\ calls' = Append(calls, Call("chat", "datetime"))
          /\ dtResult' = extract_datetime_with_ollama(now', reply)
          /\ pc' = IF dtResult'.raised THEN "main:crashed" ELSE "main:done"
          /\ stdout' =
                IF dtResult'.raised THEN stdout
                ELSE stdout \o << Printed("heading", JNull),
                                  Printed("start_iso", dtResult'.data[K_start_iso]) >>
    /\ UNCHANGED <<payload, bodyResult, text, given, jsonResult, inbox>>

NextMain ==
    \/ GetLatestEmailBodyText
    \/ ClassifyWithOllama
    \/ CoerceAndDispatch
    \/ RecievedIntent

SpecMain == InitMain /\ [][NextMain]_vars

\* The whole repository: any of the four ways in.
Init == InitBody \/ InitJson \/ InitDatetime \/ InitMain
Next == NextBody \/ NextJson \/ NextDatetime \/ NextMain
Spec == Init /\ [][Next]_vars

-----------------------------------------------------------------------------
(* Properties of the body extractor, under SpecBody *)

\* The parts of a tree in depth-first order, a part before its children and
\* the children in list order.
RECURSIVE PreOrder(_)
PreOrder(part) ==
    LET below[i \in 0..Len(part.parts)] ==
            IF i = 0 THEN <<>> ELSE below[i - 1] \o PreOrder(part.parts[i])
    IN  <<part>> \o below[Len(part.parts)]

PartsOfType(p, mime) == SelectSeq(PreOrder(p), LAMBDA q : q.mimeType = mime)

CarriesData(q) == q.hasData /\ q.data # <<>>

PartsWithData(p, mime) ==
    SelectSeq(PreOrder(p), LAMBDA q : q.mimeType = mime /\ CarriesData(q))

\* The decoded content of a part; a part with no data has none to decode.
DecodedContent(q) == IF CarriesData(q) THEN b64url_decode(q.data).text ELSE <<>>

\* No part's data makes the base64 decoder raise.
AllDecodable(p) ==
    \A i \in 1..Len(PreOrder(p)) :
        CarriesData(PreOrder(p)[i]) => b64url_decode(PreOrder(p)[i].data).ok

\* C1 as stated: a tree with a text/plain part and a text/html part yields
\* text/plain with the decoded content of the first text/plain part in
\* depth-first order.
C1_AsStated ==
    (pc = "body:done"
        /\ PartsOfType(payload, "text/plain") # <<>>
        /\ PartsOfType(payload, "text/html") # <<>>)
    => bodyResult = BodyOf("text/plain",
                           DecodedContent(PartsOfType(payload, "text/plain")[1]))

\* C1 amended: a tree with a text/html part and a text/plain part that carries
\* non-empty data yields text/plain with the decoded content of the first
\* text/plain part that carries data, in depth-first order (a part before its
\* children, children in list order), and never a text/html part; unless some
\* part's data is not decodable base64, and then the call raises.
C1_FirstPlainWithData ==
    (pc = "body:done"
        /\ PartsWithData(payload, "text/plain") # <<>>
        /\ PartsOfType(payload, "text/html") # <<>>)
    => IF AllDecodable(payload)
       THEN bodyResult = BodyOf("text/plain",
                                DecodedContent(PartsWithData(payload, "text/plain")[1]))
       ELSE bodyResult.raised

\* A nested tree whose first part with data is text/html, followed by two
\* text/plain parts of different content, the first of them one level deeper
\* than the second.
C1_Witness ==
    /\ pc = "body:done"
    /\ AllDecodable(payload)
    /\ Len(PreOrder(payload)) = 4
    /\ Len(payload.parts) = 2
    /\ payload.parts[1].mimeType = "text/html" /\ CarriesData(payload.parts[1])
    /\ Len(payload.parts[1].parts) = 1
    /\ Len(PartsWithData(payload, "text/plain")) = 2
    /\ PartsWithData(payload, "text/plain")[1] = payload.parts[1].parts[1]
    /\ DecodedContent(payload.parts[1].parts[1]) # DecodedContent(payload.parts[2])
    /\ bodyResult = BodyOf("text/plain", DecodedContent(payload.parts[1].parts[1]))

\* C2 as stated: a tree with text/html parts and no text/plain part yields
\* text/html with the decoded content of the first text/html part.
C2_AsStated ==
    (pc = "body:done"
        /\ PartsOfType(payload, "text/plain") = <<>>
        /\ PartsOfType(payload, "text/html") # <<>>)
    => bodyResult = BodyOf("text/html",
                           DecodedContent(PartsOfType(payload, "text/html")[1]))

\* C2 amended: a tree with no text/plain part and a text/html part that
\* carries non-empty data yields text/html with the decoded content of the
\* first text/html part that carries data, in depth-first order; unless some
\* part's data is not decodable base64, and then the call raises.
C2_FirstHtmlWithData ==
    (pc = "body:done"
        /\ PartsOfType(payload, "text/plain") = <<>>
        /\ PartsWithData(payload, "text/html") # <<>>)
    => IF AllDecodable(payload)
       THEN bodyResult = BodyOf("text/html",
                                DecodedContent(PartsWithData(payload, "text/html")[1]))
       ELSE bodyResult.raised

\* A tree with no text/plain part whose first text/html part has no data and
\* whose next two, of different content, are nested one under the other.
C2_Witness ==
    /\ pc = "body:done"
    /\ AllDecodable(payload)
    /\ PartsOfType(payload, "text/plain") = <<>>
    /\ Len(PartsOfType(payload, "text/html")) = 3
    /\ ~CarriesData(PartsOfType(payload, "text/html")[1])
    /\ Len(PartsWithData(payload, "text/html")) = 2
    /\ PartsWithData(payload, "text/html")[1].parts
            = <<PartsWithData(payload, "text/html")[2]>>
    /\ PartsWithData(payload, "text/html")[1].data
            # PartsWithData(payload, "text/html")[2].data
    /\ bodyResult = BodyOf("text/html",
                           DecodedContent(PartsWithData(payload, "text/html")[1]))

-----------------------------------------------------------------------------
(* Properties of the JSON coercer, under SpecJson *)

\* C3: a serialised object with any commentary before and after it, braces in
\* the commentary included, comes back as that object.
C3_CommentaryTolerated ==
    (pc = "json:done" /\ given.kind = "object")
    => jsonResult = Returned(given.obj)

\* The text has a substring that starts with '{' and ends at a later '}'.
HasBraceSpan(t) ==
    \E i \in 1..Len(t), j \in 1..Len(t) : i < j /\ t[i] = "{" /\ t[j] = "}"

\* The widest such substring.
WidestBraceSpan(t) ==
    SubSeq(t, SetMin({i \in 1..Len(t) : t[i] = "{"}),
              SetMax({j \in 1..Len(t) : t[j] = "}"}))

\* C7: a text with no substring from a '{' to a later '}' raises the value
\* error "Model did not return JSON."; a text that has one whose candidate is
\* not well-formed JSON raises the parser's own error instead.
C7_Errors ==
    pc = "json:done"
    => /\ ~HasBraceSpan(text) => jsonResult = ValueError
       /\ (HasBraceSpan(text) /\ ~json_loads(WidestBraceSpan(text)).ok)
              => jsonResult = JSONDecodeError

\* A text that holds both braces, but no '{' before a '}', and raised the
\* value error.
C7_Witness ==
    /\ pc = "json:done"
    /\ \E i \in 1..Len(text) : text[i] = "{"
    /\ \E j \in 1..Len(text) : text[j] = "}"
    /\ ~HasBraceSpan(text)
    /\ jsonResult = ValueError

\* C8: the serialised form of an object, alone or inside whitespace, comes
\* back as an equal object.
C8_RoundTrip ==
    (pc = "json:done" /\ given.kind = "object"
        /\ given.lead \in Blank /\ given.trail \in Blank)
    => jsonResult = Returned(given.obj)

\* An object of two keys, one of them holding a nested object and one a
\* string with a brace and a quote in it, inside whitespace, and it came back.
C8_Witness ==
    /\ pc = "json:done"
    /\ given.kind = "object"
    /\ given.lead \in Blank \ {<<>>} /\ given.trail \in Blank \ {<<>>}
    /\ \E k1, k2 \in DOMAIN given.obj.o :
          /\ given.obj.o[k1].t = "obj"
          /\ given.obj.o[k2] = JStr(<<"}", "\"">>)
    /\ jsonResult = Returned(given.obj)

-----------------------------------------------------------------------------
(* Properties of the datetime extractor, under SpecDatetime *)

\* C4: whatever object the model emitted, the returned record has exactly
\* the five keys, four of them strings and needs_clarification a boolean.
C4_FiveTypedKeys ==
    (pc = "dt:done" /\ ~dtResult.raised)
    => /\ DOMAIN dtResult.data = RequiredKeys
       /\ \A k \in RequiredKeys \ {K_needs_clarification} : dtResult.data[k].t = "str"
       /\ dtResult.data[K_needs_clarification].t = "bool"

\* The "%z" text of the offsets the model uses, written out.
OffsetText ==
    (-480 :> <<"-", "0", "8", "0", "0">>) @@ (0 :> <<"+", "0", "0", "0", "0">>)
    @@ (60 :> <<"+", "0", "1", "0", "0">>) @@ (330 :> <<"+", "0", "5", "3", "0">>)

DefaultOf(k, dt) ==
    IF k = K_timezone THEN JStr(IF dt.aware THEN OffsetText[dt.utcoffset] ELSE <<>>)
    ELSE IF k = K_needs_clarification THEN JBool(FALSE)
    ELSE JStr(<<>>)

\* C9: default filling adds the absent required keys with their defaults and
\* leaves every key the model emitted with the model's value.
C9_OnlyAbsentKeysFilled ==
    (pc = "dt:done" /\ ~dtResult.raised)
    => LET emitted == dtResult.coerced.val.o
           data    == dtResult.data
       IN  /\ DOMAIN data = DOMAIN emitted \cup RequiredKeys
           /\ \A k \in RequiredKeys \ DOMAIN emitted : data[k] = DefaultOf(k, now)
           /\ \A k \in DOMAIN emitted : data[k] = emitted[k]

\* The model left timezone out and sent a number as start_iso; the caller is
\* at UTC-8: timezone came back as "-0800" and start_iso as the number.
C9_Witness ==
    /\ pc = "dt:done"
    /\ ~dtResult.raised
    /\ now = Datetime(TRUE, -480)
    /\ K_timezone \notin DOMAIN dtResult.coerced.val.o
    /\ K_start_iso \in DOMAIN dtResult.coerced.val.o
    /\ dtResult.coerced.val.o[K_start_iso] = JNum(1, 0)
    /\ dtResult.data[K_timezone] = JStr(<<"-", "0", "8", "0", "0">>)
    /\ dtResult.data[K_start_iso] = JNum(1, 0)

-----------------------------------------------------------------------------
(* Properties of a run, under SpecMain *)

Ended == pc \in {"main:done", "main:exit0", "main:crashed"}

Made(call) == \E i \in 1..Len(calls) : calls[i] = call
Count(op) == Cardinality({i \in 1..Len(calls) : calls[i].op = op})

LabelParsed == jsonResult.kind = "dict" /\ K_label \in DOMAIN jsonResult.val.o

\* C5 as stated: in a run that has ended, the datetime extractor was invoked
\* exactly when the label parsed from the classifier's reply is
\* SCHEDULE_MEETING.
C5_AsStated ==
    Ended
    => (Made(Call("chat", "datetime"))
            <=> (LabelParsed /\ jsonResult.val.o[K_label] = JStr(L_SCHEDULE_MEETING)))

\* C5 amended: in a run that has ended, the datetime extractor was invoked
\* exactly when the label parsed from the classifier's reply is
\* INTENT_SCHEDULE_MEETING, and for no other label.
C5_OnlyForIntentLabel ==
    Ended
    => (Made(Call("chat", "datetime"))
            <=> (LabelParsed /\ jsonResult.val.o[K_label] = JStr(L_INTENT_SCHEDULE_MEETING)))

\* A run whose classifier said INTENT_SCHEDULE_MEETING, which went on to the
\* datetime extractor and printed start_iso.
C5_Witness ==
    /\ pc = "main:done"
    /\ LabelParsed
    /\ jsonResult.val.o[K_label] = JStr(L_INTENT_SCHEDULE_MEETING)
    /\ Made(Call("chat", "datetime"))
    /\ \E i \in 1..Len(stdout) : stdout[i].what = "start_iso"

\* C6: once the mailbox has listed no message, the run has reported the
\* error and exited cleanly, and it has made no model call.
C6_EmptyInboxStops ==
    Made(Call("messages.list", "none"))
    => /\ pc = "main:exit0"
       /\ stdout = <<Printed("error", JStr(ErrNoMessages))>>
       /\ Count("chat") = 0
       /\ Count("messages.get") = 0

C6_Witness ==
    /\ inbox = <<>>
    /\ Made(Call("messages.list", "none"))
    /\ pc = "main:exit0"

Before(first, second) ==
    \A i \in 1..Len(calls) :
        calls[i] = second => \E j \in 1..(i - 1) : calls[j] = first

FetchedBefore(i) ==
    \E j \in 1..(i - 1) : calls[j].op = "messages.get" /\ calls[j].arg # "error"

CallOrder ==
    /\ Count("chat") <= 2
    /\ \A i \in 1..Len(calls) : calls[i].op = "chat" => FetchedBefore(i)
    /\ Before(Call("chat", "classify"), Call("_extract_json", "ok"))
    /\ Before(Call("_extract_json", "ok"), Call("chat", "datetime"))
    /\ Made(Call("_extract_json", "raised"))
          => pc = "main:crashed" /\ ~Made(Call("chat", "datetime"))

\* C10 as stated: a run that ends without an exception has fetched exactly
\* one message, with the calls in the stated order.
C10_AsStated ==
    /\ pc \in {"main:done", "main:exit0"} => Count("messages.get") = 1
    /\ CallOrder

\* C10 amended: a run fetches at most one message - exactly one before any
\* model call, none when the mailbox lists no message - and makes at most two
\* model calls: the fetch before the classification call, the datetime call
\* only after the classification reply went through the coercer, and none
\* after a coercer failure, which ends the run.
C10_CallDiscipline ==
    /\ Count("messages.get") <= 1
    /\ pc = "main:done" => Count("messages.get") = 1
    /\ Count("chat") >= 1 => Count("messages.get") = 1
    /\ Made(Call("messages.list", "none")) => Count("messages.get") = 0
    /\ CallOrder

\* A run on a mailbox of two messages: the newer one alone was fetched, then
\* came the classification, the coercion and the datetime call.
C10_Witness ==
    /\ pc = "main:done"
    /\ Len(inbox) = 2
    /\ calls = << Call("messages.list", "m2"), Call("messages.get", "m2"),
                  Call("chat", "classify"), Call("_extract_json", "ok"),
                  Call("chat", "datetime") >>

=============================================================================
